---- MODULE Spec2Model ----
(***************************************************************************)
(* A model of the Astrometry API Server:                                   *)
(*   - astrometry.Execute, the allowlist-gated launcher of solver binaries *)
(*   - SolveHandler.ServeHTTP and AnalyseHandler.ServeHTTP, which stage an *)
(*     upload in a temporary file, run the solver/analyser, and answer     *)
(*   - main's signal-driven shutdown                                       *)
(*                                                                         *)
(* A Go string is modelled as a sequence of fragments (its concatenation   *)
(* is the string), so that equality of strings is equality of sequences    *)
(* and prefix/suffix/substring relations are expressible.                  *)
(***************************************************************************)
EXTENDS Integers, Sequences, FiniteSets, TLC

VARIABLES
    validBinaries,  \* executor.go: package variable validBinaries (keys mapped to true)
    execName,       \* binary argument of the latest Execute call
    execArgs,       \* args argument of the latest Execute call
    execOut,        \* string returned by the latest Execute call
    execErr,        \* error returned by the latest Execute call
    procArgv,       \* argument vector handed to the latest launched command
    procOut,        \* combined stdout/stderr of the latest command that ended
    nCalls,         \* Execute calls made
    nAllowed,       \* Execute calls made with an allowlisted name
    nLaunch,        \* cmd.CombinedOutput invocations (launch attempts)
    nProcs,         \* external processes actually started
    nBlocked,       \* Execute calls waiting in CombinedOutput for a process that never exits
    proc,           \* main: "running", "shutdown" (signal received), "exited",
                    \* "failed" (log.Fatalf after ListenAndServe failed)
    pc,             \* per request: where its ServeHTTP call stands
    req,            \* per request: the HTTP request being served
    fd,             \* per request: inode of the open staged file `out` (0: none)
    off,            \* per request: write offset of `out`
    nSolve,         \* per request: calls of client.Solve made
    solveArg,       \* per request: the path and options handed to client.Solve
    ret,            \* per request: what client.Solve / fov.AnalyzeImage returned
    resp,           \* per request: the HTTP response written
    dir,            \* filesystem: staged path -> inode (0: no such file)
    content,        \* filesystem: inode -> bytes
    clock,          \* the monotonic clock, in seconds
    startTime,      \* HealthHandler.startTime
    hreq,           \* method of the latest /health request
    hresp,          \* response to the latest /health request
    vresp,          \* response to the latest /version request
    callLog         \* the last two logged calls of Execute: name, arguments, what was launched

execVars == <<validBinaries, execName, execArgs, execOut, execErr, procArgv, procOut,
              nCalls, nAllowed, nLaunch, nProcs, nBlocked>>

srvVars == <<proc, pc, req, fd, off, nSolve, solveArg, ret, resp, dir, content>>

hVars == <<clock, startTime, hreq, hresp, vresp, callLog>>

vars == <<execVars, srvVars, hVars>>

----------------------------------------------------------------------------
(* Bounds of the model *)

MaxCalls == 3       \* Execute calls in one behaviour
NumRequests == 2    \* HTTP requests served in one behaviour (possibly concurrently)

----------------------------------------------------------------------------
(* astrometry.Execute *)

SolveField == <<"solve-field">>
Image2XY == <<"image2xy">>
FitWCS == <<"fit-wcs">>
WcsXY2RD == <<"wcs-xy2rd">>
WcsRD2XY == <<"wcs-rd2xy">>

\* the initial value of the package variable validBinaries
ValidBinariesInit == {SolveField, Image2XY, FitWCS, WcsXY2RD, WcsRD2XY}

\* the names tried: each permitted name, each permitted name with a path
\* prefix, with a shell suffix and next to another name, and foreign names
BinaryNames ==
    ValidBinariesInit
    \cup {<<"../">> \o b : b \in ValidBinariesInit}
    \cup {b \o <<"; rm -rf /">> : b \in ValidBinariesInit}
    \cup {<<"solve-field", "image2xy">>, <<"invalid-binary">>, <<"rm">>, <<"bash">>,
          <<"python">>, <<>>}

ArgLists == {<<>>, <<"--help">>, <<"--version">>, <<"--help", "; rm -rf /">>}

Whitespace == {" ", "\n", "\t"}

RawOutputs == {<<>>, <<"\n">>, <<" ", "0.98", "\n">>}

NilErr == [nil |-> TRUE, msg |-> <<>>]
Err(m) == [nil |-> FALSE, msg |-> m]

RECURSIVE TrimLeft(_)
TrimLeft(s) == IF s # <<>> /\ Head(s) \in Whitespace THEN TrimLeft(Tail(s)) ELSE s

RECURSIVE TrimRight(_)
TrimRight(s) ==
    IF s # <<>> /\ s[Len(s)] \in Whitespace THEN TrimRight(SubSeq(s, 1, Len(s) - 1)) ELSE s

\* strings.TrimSpace
TrimSpace(s) == TrimRight(TrimLeft(s))

IsPrefix(p, s) == Len(p) <= Len(s) /\ SubSeq(s, 1, Len(p)) = p
Contains(s, p) == \E i \in 1..(Len(s) - Len(p) + 1) : SubSeq(s, i, i + Len(p) - 1) = p

\* a faulty lookup: accepts any name containing a permitted name
IsValidBinarySubstring(binary) == \E b \in validBinaries : Contains(binary, b)

\* validBinaries[binary]: a map lookup, true exactly for the keys of the map
IsValidBinary(binary) == binary \in validBinaries

\* What exec.Command(binary, args...).CombinedOutput() can do: the binary is not
\* found or cannot be started (no process), or a process runs and exits with
\* status zero or non-zero, having written some output, or a process runs and
\* never exits (CombinedOutput waits for it without a deadline).
CmdOutcomes ==
    {[started |-> FALSE, exits |-> TRUE, out |-> <<>>,
      err |-> Err(<<"exec: executable file not found in $PATH">>)]}
    \cup {[started |-> TRUE, exits |-> TRUE, out |-> o, err |-> NilErr] : o \in RawOutputs}
    \cup {[started |-> TRUE, exits |-> TRUE, out |-> o, err |-> Err(<<"exit status 1">>)] :
            o \in RawOutputs}
    \cup {[started |-> TRUE, exits |-> FALSE, out |-> <<>>, err |-> NilErr]}

\* a faulty rejection: reports the error but still launches the command
ExecuteRejectedLaunching(binary, args) ==
    /\ ~IsValidBinary(binary)
    /\ execOut' = <<>>
    /\ execErr' = Err(<<"invalid binary name: ">> \o binary)
    /\ nLaunch' = nLaunch + 1
    /\ nProcs' = nProcs + 1
    /\ procArgv' = <<binary>> \o args
    /\ UNCHANGED <<nAllowed, nBlocked, procOut>>

\* a faulty rejection: also refuses a call whose arguments hold shell metacharacters
ExecuteRejectedByArgs(binary, args) ==
    /\ ~IsValidBinary(binary) \/ \E i \in DOMAIN args : args[i] = "; rm -rf /"
    /\ execOut' = <<>>
    /\ execErr' = Err(<<"invalid binary name: ">> \o binary)
    /\ UNCHANGED <<nAllowed, nLaunch, nProcs, nBlocked, procArgv, procOut>>

\* Execute, lines 34-36: the name is not a key of validBinaries
ExecuteRejected(binary, args) ==
    /\ ~IsValidBinary(binary)
    /\ execOut' = <<>>
    /\ execErr' = Err(<<"invalid binary name: ">> \o binary)
    /\ UNCHANGED <<nAllowed, nLaunch, nProcs, nBlocked, procArgv, procOut>>

\* a faulty launch: returns no output when the command ended with an error
ExecuteLaunchedDroppingOutput(binary, args) ==
    /\ IsValidBinary(binary)
    /\ \E o \in CmdOutcomes :
        /\ IF o.exits
           THEN /\ procOut' = o.out
                /\ execOut' = IF o.err.nil THEN TrimSpace(o.out) ELSE <<>>
                /\ execErr' = o.err
                /\ UNCHANGED nBlocked
           ELSE /\ nBlocked' = nBlocked + 1
                /\ UNCHANGED <<procOut, execOut, execErr>>
        /\ nProcs' = nProcs + (IF o.started THEN 1 ELSE 0)
    /\ nAllowed' = nAllowed + 1
    /\ nLaunch' = nLaunch + 1
    /\ procArgv' = <<binary>> \o args

\* Execute, lines 39-43: the command is built from the name and the arguments
\* as given, run, and its combined output returned trimmed with its error;
\* while the process has not exited the call stays in CombinedOutput
ExecuteLaunched(binary, args) ==
    /\ IsValidBinary(binary)
    /\ \E o \in CmdOutcomes :
        /\ IF o.exits
           THEN /\ procOut' = o.out
                /\ execOut' = TrimSpace(o.out)
                /\ execErr' = o.err
                /\ UNCHANGED nBlocked
           ELSE /\ nBlocked' = nBlocked + 1
                /\ UNCHANGED <<procOut, execOut, execErr>>
        /\ nProcs' = nProcs + (IF o.started THEN 1 ELSE 0)
    /\ nAllowed' = nAllowed + 1
    /\ nLaunch' = nLaunch + 1
    /\ procArgv' = <<binary>> \o args

\* one call Execute(binary, args...)
ExecuteCall(binary, args) ==
    /\ execName' = binary
    /\ execArgs' = args
    /\ nCalls' = nCalls + 1
    /\ \/ ExecuteRejected(binary, args)
       \/ ExecuteLaunched(binary, args)
    /\ UNCHANGED validBinaries

Execute ==
    /\ nCalls < MaxCalls
    /\ \E binary \in BinaryNames, args \in ArgLists : ExecuteCall(binary, args)

\* the names of the logged calls: a permitted name, a permitted name with a
\* shell suffix, and a foreign name
LoggedNames == {SolveField, SolveField \o <<"; rm -rf /">>, <<"rm">>}

\* a call of Execute whose name, arguments and launched command are logged
ExecuteLogged ==
    /\ nCalls < MaxCalls
    /\ \E binary \in LoggedNames, args \in ArgLists :
        /\ ExecuteCall(binary, args)
        /\ callLog' = (IF callLog = <<>> THEN <<>> ELSE <<callLog[Len(callLog)]>>)
                        \o <<[name |-> binary, args |-> args,
                              launched |-> nLaunch' # nLaunch,
                              argv |-> IF nLaunch' # nLaunch THEN procArgv' ELSE <<>>]>>

InitExec ==
    /\ validBinaries = ValidBinariesInit
    /\ execName = <<>>
    /\ execArgs = <<>>
    /\ execOut = <<>>
    /\ execErr = NilErr
    /\ procArgv = <<>>
    /\ procOut = <<>>
    /\ nCalls = 0
    /\ nAllowed = 0
    /\ nLaunch = 0
    /\ nProcs = 0
    /\ nBlocked = 0

----------------------------------------------------------------------------
(* HTTP requests and responses *)

Reqs == 1..NumRequests

\* the form fields parseSolveOptions reads (solve.go lines 184-231)
OptionFields ==
    {"scale_low", "scale_high", "scale_units", "downsample_factor", "depth_low",
     "depth_high", "ra", "dec", "radius", "keep_temp_files"}

\* r.FormValue(f) of a form without the field f is ""
EmptyForm == [f \in OptionFields |-> <<>>]

\* a request: formOK says the body is well-formed multipart data, oversize that
\* the body is longer than maxUploadSize, keep that the client asked for
\* keep_temp_files
NoReq ==
    [kind |-> "none", method |-> "", formOK |-> FALSE, oversize |-> FALSE, hasImage |-> FALSE,
     filename |-> <<>>, upload |-> <<>>, keep |-> FALSE, form |-> EmptyForm]

ExtFragments == {".jpg", ".JPG", ".jpeg", ".png", ".fits", ".fit", ".txt"}

\* filepath.Ext: the suffix of the name starting at its last dot, or ""
Ext(name) ==
    IF name # <<>> /\ name[Len(name)] \in ExtFragments THEN <<name[Len(name)]>> ELSE <<>>

LowerFrag(f) == CASE f = ".JPG" -> ".jpg" [] f = "A" -> "a" [] OTHER -> f

\* strings.ToLower
ToLower(s) == [i \in 1..Len(s) |-> LowerFrag(s[i])]

\* solve.go line 114 and executor.go line 136: the keys of validExts
SolveValidExts == {<<".jpg">>, <<".jpeg">>, <<".png">>, <<".fits">>, <<".fit">>}
AnalyseValidExts == {<<".jpg">>, <<".jpeg">>, <<".png">>}

\* fmt.Sprintf("%d", os.Getpid()): one value for the whole life of the process
Getpid == <<"<pid>">>

\* os.TempDir()
OsTempDir == <<"$TMPDIR">>

\* filepath.Join(dir, name)
Join(d, name) == d \o <<"/">> \o name

\* solve.go lines 121-122
SolveTempFile(ext) == Join(<<"/shared-data">>, <<"astro_">> \o Getpid \o ext)

\* executor.go lines 143-144
AnalyseTempFile(ext) == Join(OsTempDir, <<"analyse_">> \o Getpid \o ext)

ReqExt(q) == ToLower(Ext(q.filename))

\* a faulty staging path: built from the client-supplied file name
TempFileFromName(q) ==
    IF q.kind = "solve" THEN Join(<<"/shared-data">>, q.filename)
    ELSE AnalyseTempFile(ReqExt(q))

\* the path a request stages its upload at
TempFile(q) ==
    IF q.kind = "solve" THEN SolveTempFile(ReqExt(q)) ELSE AnalyseTempFile(ReqExt(q))

StagedPaths ==
    {SolveTempFile(e) : e \in SolveValidExts} \cup {AnalyseTempFile(e) : e \in AnalyseValidExts}

EmptyBody == [f \in {} |-> 0]
NoResp == [status |-> 0, ctype |-> "", body |-> EmptyBody]

\* encoding/json with omitempty: a field is written when it is in `always`
\* or differs from its zero value
EncodeJSON(v, zero, always) ==
    [f \in always \cup {g \in DOMAIN v : v[g] # zero[g]} |-> v[f]]

\* json decoding into a zero-valued struct: an absent field reads as zero
Field(body, zero, f) == IF f \in DOMAIN body THEN body[f] ELSE zero[f]

\* SolveResponse{}, by JSON field name
SolveResponseZero ==
    [solved |-> FALSE, ra |-> 0, dec |-> 0, pixel_scale |-> 0, rotation |-> 0,
     field_width |-> 0, field_height |-> 0, wcs_header |-> {}, solve_time |-> 0,
     raw_output |-> <<>>, error |-> <<>>]

JSONResponse(statusCode, v, zero, always) ==
    [status |-> statusCode, ctype |-> "application/json", body |-> EncodeJSON(v, zero, always)]

\* respondError
RespondError(message, statusCode) ==
    JSONResponse(statusCode, [SolveResponseZero EXCEPT !.solved = FALSE, !.error = message],
                 SolveResponseZero, {"solved"})

\* AnalyseResponse{}, by JSON field name
AnalyseResponseZero ==
    [success |-> FALSE, make |-> <<>>, model |-> <<>>, focal_length |-> 0,
     sensor_name |-> <<>>, detected_from |-> <<>>, fov |-> 0, scale_low |-> 0,
     scale_high |-> 0, scale_units |-> <<>>, has_exif |-> FALSE, error |-> <<>>]

\* respondAnalyseError
RespondAnalyseError(message, statusCode) ==
    JSONResponse(statusCode, [AnalyseResponseZero EXCEPT !.success = FALSE, !.error = message],
                 AnalyseResponseZero, {"success", "has_exif"})

\* http.Error: a plain-text body
HttpError(message, statusCode) ==
    [status |-> statusCode, ctype |-> "text/plain; charset=utf-8",
     body |-> [text |-> message \o <<"\n">>]]

\* r.Body = http.MaxBytesReader(w, r.Body, h.maxUploadSize) and
\* r.ParseMultipartForm(h.maxUploadSize): the parse reads the whole body and
\* fails on a body it cannot parse or that is longer than the limit
ParseMultipartFormOK(q) == q.formOK /\ ~q.oversize

\* a faulty validation: compares the extension without lowering its case
SolveRejectCaseSensitive(q) ==
    IF q.method # "POST" THEN RespondError(<<"Method not allowed">>, 405)
    ELSE IF ~ParseMultipartFormOK(q) THEN RespondError(<<"Failed to parse form">>, 400)
    ELSE IF ~q.hasImage THEN RespondError(<<"Missing or invalid 'image' field">>, 400)
    ELSE IF Ext(q.filename) \notin SolveValidExts
         THEN RespondError(<<"Invalid file type", ". Supported: jpg, jpeg, png, fits, fit">>, 400)
    ELSE NoResp

\* a faulty validation: refuses a radius given without both ra and dec
SolveRejectIncompleteHint(q) ==
    IF q.method # "POST" THEN RespondError(<<"Method not allowed">>, 405)
    ELSE IF ~ParseMultipartFormOK(q) THEN RespondError(<<"Failed to parse form">>, 400)
    ELSE IF ~q.hasImage THEN RespondError(<<"Missing or invalid 'image' field">>, 400)
    ELSE IF ReqExt(q) \notin SolveValidExts
         THEN RespondError(<<"Invalid file type", ". Supported: jpg, jpeg, png, fits, fit">>, 400)
    ELSE IF q.form.radius # <<>> /\ (q.form.ra = <<>> \/ q.form.dec = <<>>)
         THEN RespondError(<<"radius requires ra and dec">>, 400)
    ELSE NoResp

\* SolveHandler.ServeHTTP lines 90-118: the response of a request rejected
\* before staging, or NoResp when the request goes on to staging
SolveReject(q) ==
    IF q.method # "POST" THEN RespondError(<<"Method not allowed">>, 405)
    ELSE IF ~ParseMultipartFormOK(q) THEN RespondError(<<"Failed to parse form">>, 400)
    ELSE IF ~q.hasImage THEN RespondError(<<"Missing or invalid 'image' field">>, 400)
    ELSE IF ReqExt(q) \notin SolveValidExts
         THEN RespondError(<<"Invalid file type", ". Supported: jpg, jpeg, png, fits, fit">>, 400)
    ELSE NoResp

\* AnalyseHandler.ServeHTTP lines 112-140
AnalyseReject(q) ==
    IF q.method # "POST" THEN HttpError(<<"Method not allowed">>, 405)
    ELSE IF ~ParseMultipartFormOK(q) THEN RespondAnalyseError(<<"Failed to parse form">>, 400)
    ELSE IF ~q.hasImage THEN RespondAnalyseError(<<"Missing or invalid 'image' field">>, 400)
    ELSE IF ReqExt(q) \notin AnalyseValidExts
         THEN RespondAnalyseError(<<"Invalid file type", ". Supported: jpg, jpeg, png">>, 400)
    ELSE NoResp

Reject(q) == IF q.kind = "solve" THEN SolveReject(q) ELSE AnalyseReject(q)

----------------------------------------------------------------------------
(* parseSolveOptions *)

\* client.DefaultSolveOptions() (external package), by the documented defaults
DefaultSolveOptions ==
    [ScaleLow |-> 0, ScaleHigh |-> 0, ScaleUnits |-> <<"arcminwidth">>, DownsampleFactor |-> 2,
     DepthLow |-> 10, DepthHigh |-> 20, RA |-> 0, Dec |-> 0, Radius |-> 0,
     KeepTempFiles |-> FALSE]

NoArg == [path |-> <<>>, opts |-> DefaultSolveOptions]

\* the decimal integer literals among the strings of the model
IntLiterals ==
    (<<"4">> :> 4) @@ (<<"15">> :> 15) @@ (<<"+30">> :> 30) @@ (<<"320">> :> 320)
    @@ (<<"460">> :> 460) @@ (<<"83">> :> 83) @@ (<<"-5">> :> -5)

\* the floating-point literals: the integer literals and exponent forms
FloatLiterals == IntLiterals @@ (<<"1e2">> :> 100)

BoolLiterals ==
    [s \in {<<"1">>, <<"t">>, <<"T">>, <<"TRUE">>, <<"true">>, <<"True">>} |-> TRUE]
    @@ [s \in {<<"0">>, <<"f">>, <<"F">>, <<"FALSE">>, <<"false">>, <<"False">>} |-> FALSE]

\* strconv.ParseFloat(val, 64), strconv.Atoi(val), strconv.ParseBool(val) on
\* the strings of the model: the value, or an error
ParseFloat(val) ==
    IF val \in DOMAIN FloatLiterals THEN [ok |-> TRUE, v |-> FloatLiterals[val]]
    ELSE [ok |-> FALSE, v |-> 0]

Atoi(val) ==
    IF val \in DOMAIN IntLiterals THEN [ok |-> TRUE, v |-> IntLiterals[val]]
    ELSE [ok |-> FALSE, v |-> 0]

ParseBool(val) ==
    IF val \in DOMAIN BoolLiterals THEN [ok |-> TRUE, v |-> BoolLiterals[val]]
    ELSE [ok |-> FALSE, v |-> FALSE]

\* if val != "" { if v, err := parse(val); err == nil { field = v } }
Parsed(val, p, old) == IF val # <<>> /\ p.ok THEN p.v ELSE old

\* a faulty parse: the ra and dec form fields set each other's option
ParseSolveOptionsSwapped(form) ==
    [DefaultSolveOptions EXCEPT
        !.ScaleLow = Parsed(form.scale_low, ParseFloat(form.scale_low), @),
        !.ScaleHigh = Parsed(form.scale_high, ParseFloat(form.scale_high), @),
        !.ScaleUnits = IF form.scale_units # <<>> THEN form.scale_units ELSE @,
        !.DownsampleFactor = Parsed(form.downsample_factor, Atoi(form.downsample_factor), @),
        !.DepthLow = Parsed(form.depth_low, Atoi(form.depth_low), @),
        !.DepthHigh = Parsed(form.depth_high, Atoi(form.depth_high), @),
        !.RA = Parsed(form.dec, ParseFloat(form.dec), @),
        !.Dec = Parsed(form.ra, ParseFloat(form.ra), @),
        !.Radius = Parsed(form.radius, ParseFloat(form.radius), @),
        !.KeepTempFiles = Parsed(form.keep_temp_files, ParseBool(form.keep_temp_files), @)]

\* parseSolveOptions (solve.go lines 180-234): each option is set from its own
\* form field when the field is non-empty and parses; scale_units is taken as is
ParseSolveOptions(form) ==
    [DefaultSolveOptions EXCEPT
        !.ScaleLow = Parsed(form.scale_low, ParseFloat(form.scale_low), @),
        !.ScaleHigh = Parsed(form.scale_high, ParseFloat(form.scale_high), @),
        !.ScaleUnits = IF form.scale_units # <<>> THEN form.scale_units ELSE @,
        !.DownsampleFactor = Parsed(form.downsample_factor, Atoi(form.downsample_factor), @),
        !.DepthLow = Parsed(form.depth_low, Atoi(form.depth_low), @),
        !.DepthHigh = Parsed(form.depth_high, Atoi(form.depth_high), @),
        !.RA = Parsed(form.ra, ParseFloat(form.ra), @),
        !.Dec = Parsed(form.dec, ParseFloat(form.dec), @),
        !.Radius = Parsed(form.radius, ParseFloat(form.radius), @),
        !.KeepTempFiles = Parsed(form.keep_temp_files, ParseBool(form.keep_temp_files), @)]

----------------------------------------------------------------------------
(* What client.Solve and fov.AnalyzeImage (external packages) can return *)

NilResult ==
    [nil |-> TRUE, Solved |-> FALSE, RA |-> 0, Dec |-> 0, PixelScale |-> 0, Rotation |-> 0,
     FieldWidth |-> 0, FieldHeight |-> 0, WCSHeader |-> {}, SolveTime |-> 0, RawOutput |-> <<>>]

MkResult(solved, ra, dec, rest, time, raw) ==
    [nil |-> FALSE, Solved |-> solved, RA |-> ra, Dec |-> dec,
     PixelScale |-> IF rest THEN 4 ELSE 0, Rotation |-> IF rest THEN 22 ELSE 0,
     FieldWidth |-> IF rest THEN 2 ELSE 0, FieldHeight |-> IF rest THEN 1 ELSE 0,
     WCSHeader |-> IF rest THEN {<<"CRVAL1", "83.4">>} ELSE {},
     SolveTime |-> time, RawOutput |-> raw]

Results ==
    {MkResult(s, ra, dec, rest, t, raw) :
        s \in BOOLEAN, ra \in {0, 83}, dec \in {0, -5}, rest \in BOOLEAN,
        t \in {0, 7}, raw \in {<<>>, <<"Did not solve">>}}

SolveErrors == {Err(<<"solve timed out">>), Err(<<"failed to parse WCS">>)}

NoRet == [returned |-> FALSE, panic |-> FALSE, err |-> NilErr, res |-> NilResult]

Outcome(p, e, x) == [returned |-> TRUE, panic |-> p, err |-> e, res |-> x]

\* every outcome: a panic inside the call, an error with or without a result,
\* or a nil error with a result or (violating the client's contract) without
SolveOutcomesFull ==
    {Outcome(TRUE, NilErr, NilResult)}
    \cup {Outcome(FALSE, e, x) : e \in SolveErrors, x \in {NilResult} \cup Results}
    \cup {Outcome(FALSE, NilErr, x) : x \in {NilResult} \cup Results}

SolveOutcomesSmall ==
    {o \in SolveOutcomesFull :
        /\ o.err \in {NilErr, Err(<<"solve timed out">>)}
        /\ o.res \in {NilResult, MkResult(FALSE, 0, 0, FALSE, 7, <<"Did not solve">>),
                      MkResult(TRUE, 83, -5, TRUE, 7, <<>>)}
        /\ (o.res.nil <=> ~o.err.nil \/ o.panic)}

NilInfo == [nil |-> TRUE, Make |-> <<>>, HasEXIF |-> FALSE, FOVWidth |-> 0, ScaleLow |-> 0]

Infos ==
    {[nil |-> FALSE, Make |-> <<"Canon">>, HasEXIF |-> TRUE, FOVWidth |-> 2, ScaleLow |-> 96],
     [nil |-> FALSE, Make |-> <<>>, HasEXIF |-> FALSE, FOVWidth |-> 0, ScaleLow |-> 0]}

AnalyseOutcomes ==
    {Outcome(TRUE, NilErr, NilInfo), Outcome(FALSE, Err(<<"no EXIF data">>), NilInfo)}
    \cup {Outcome(FALSE, NilErr, x) : x \in Infos}

\* a faulty response: reports "no solution" through the error field and drops
\* the diagnostics
BuildSolveResponseNoSolutionAsError(o) ==
    IF ~o.err.nil
    THEN [SolveResponseZero EXCEPT !.solved = FALSE, !.error = o.err.msg]
    ELSE IF o.res.Solved
    THEN [SolveResponseZero EXCEPT
            !.solved = o.res.Solved, !.solve_time = o.res.SolveTime,
            !.raw_output = o.res.RawOutput, !.ra = o.res.RA, !.dec = o.res.Dec,
            !.pixel_scale = o.res.PixelScale, !.rotation = o.res.Rotation,
            !.field_width = o.res.FieldWidth, !.field_height = o.res.FieldHeight,
            !.wcs_header = o.res.WCSHeader]
    ELSE [SolveResponseZero EXCEPT !.solved = FALSE, !.error = <<"no solution found">>]

\* a faulty response: copies the coordinates whether or not the image was solved
BuildSolveResponseCoordsAlways(o) ==
    IF ~o.err.nil
    THEN [SolveResponseZero EXCEPT !.solved = FALSE, !.error = o.err.msg]
    ELSE [SolveResponseZero EXCEPT
            !.solved = o.res.Solved, !.solve_time = o.res.SolveTime,
            !.raw_output = o.res.RawOutput, !.ra = o.res.RA, !.dec = o.res.Dec,
            !.pixel_scale = o.res.PixelScale, !.rotation = o.res.Rotation,
            !.field_width = o.res.FieldWidth, !.field_height = o.res.FieldHeight,
            !.wcs_header = o.res.WCSHeader]

\* a faulty response: on an error, takes solved from the result when there is one
BuildSolveResponseSolvedOnError(o) ==
    IF ~o.err.nil
    THEN [SolveResponseZero EXCEPT !.solved = o.res.Solved, !.error = o.err.msg]
    ELSE IF o.res.Solved
    THEN [SolveResponseZero EXCEPT
            !.solved = o.res.Solved, !.solve_time = o.res.SolveTime,
            !.raw_output = o.res.RawOutput, !.ra = o.res.RA, !.dec = o.res.Dec,
            !.pixel_scale = o.res.PixelScale, !.rotation = o.res.Rotation,
            !.field_width = o.res.FieldWidth, !.field_height = o.res.FieldHeight,
            !.wcs_header = o.res.WCSHeader]
    ELSE [SolveResponseZero EXCEPT
            !.solved = o.res.Solved, !.solve_time = o.res.SolveTime,
            !.raw_output = o.res.RawOutput]

\* SolveHandler.ServeHTTP lines 149-171: the response struct built from what
\* client.Solve returned
BuildSolveResponse(o) ==
    IF ~o.err.nil
    THEN [SolveResponseZero EXCEPT !.solved = FALSE, !.error = o.err.msg]
    ELSE IF o.res.Solved
    THEN [SolveResponseZero EXCEPT
            !.solved = o.res.Solved, !.solve_time = o.res.SolveTime,
            !.raw_output = o.res.RawOutput, !.ra = o.res.RA, !.dec = o.res.Dec,
            !.pixel_scale = o.res.PixelScale, !.rotation = o.res.Rotation,
            !.field_width = o.res.FieldWidth, !.field_height = o.res.FieldHeight,
            !.wcs_header = o.res.WCSHeader]
    ELSE [SolveResponseZero EXCEPT
            !.solved = o.res.Solved, !.solve_time = o.res.SolveTime,
            !.raw_output = o.res.RawOutput]

\* lines 174-177: no WriteHeader call, so the status is the implicit 200
SolveAnswer(o) == JSONResponse(200, BuildSolveResponse(o), SolveResponseZero, {"solved"})

\* a faulty handler: reads the result before looking at the error
SolvePanicsOnNilResult(o) == o.panic \/ o.res.nil

\* the handler dereferences a nil result when the error is nil too (line 155)
SolvePanics(o) == o.panic \/ (o.err.nil /\ o.res.nil)

\* a faulty answer: reports a failed analysis as a success without data
AnalyseAnswerErrorAsSuccess(o) ==
    JSONResponse(200,
        [AnalyseResponseZero EXCEPT
            !.success = TRUE, !.make = o.res.Make, !.has_exif = o.res.HasEXIF,
            !.scale_units = <<"arcminwidth">>,
            !.fov = IF o.res.FOVWidth > 0 THEN o.res.FOVWidth ELSE 0,
            !.scale_low = IF o.res.FOVWidth > 0 THEN o.res.ScaleLow ELSE 0],
        AnalyseResponseZero, {"success", "has_exif"})

\* AnalyseHandler.ServeHTTP lines 163-200
AnalyseAnswer(o) ==
    IF ~o.err.nil
    THEN RespondAnalyseError(<<"Failed to analyse image: ">> \o o.err.msg, 400)
    ELSE JSONResponse(200,
            [AnalyseResponseZero EXCEPT
                !.success = TRUE, !.make = o.res.Make, !.has_exif = o.res.HasEXIF,
                !.scale_units = <<"arcminwidth">>,
                !.fov = IF o.res.FOVWidth > 0 THEN o.res.FOVWidth ELSE 0,
                !.scale_low = IF o.res.FOVWidth > 0 THEN o.res.ScaleLow ELSE 0],
            AnalyseResponseZero, {"success", "has_exif"})

AnalysePanics(o) == o.panic \/ (o.err.nil /\ o.res.nil)

----------------------------------------------------------------------------
(* The filesystem: one inode per creating request; a path names an inode *)

Max(a, b) == IF a >= b THEN a ELSE b

\* write(2) of one block b at offset o: overwrites or extends, a gap reads as 0
WriteAt(c, o, b) ==
    [i \in 1..Max(Len(c), o + 1) |-> IF i = o + 1 THEN b ELSE IF i <= Len(c) THEN c[i] ELSE 0]

\* an inode that no path names and no descriptor holds open is freed
Collect(d, f, c) ==
    [i \in Reqs |-> IF (\E p \in StagedPaths : d[p] = i) \/ (\E r \in Reqs : f[r] = i)
                    THEN c[i] ELSE <<>>]

\* a faulty removal: leaves the file in place
UnlinkNothing(d, p) == d

\* os.Remove(path): unlinks the path if it names a file; its error is ignored
Unlink(d, p) == [d EXCEPT ![p] = 0]

InFlight(r) == pc[r] \in {"staged", "copying", "solving"}

\* the server process exists, so its goroutines take steps
ProcessAlive == proc \notin {"exited", "failed"}

----------------------------------------------------------------------------
(* SolveHandler.ServeHTTP and AnalyseHandler.ServeHTTP, step by step *)

\* The deferred calls of a handler that got past the extension check, run when
\* it returns or panics: out.Close(), os.Remove(tempFile), file.Close().
Return(r, response) ==
    /\ resp' = [resp EXCEPT ![r] = response]
    /\ pc' = [pc EXCEPT ![r] = "done"]
    /\ fd' = [fd EXCEPT ![r] = 0]
    /\ off' = [off EXCEPT ![r] = 0]
    /\ dir' = Unlink(dir, TempFile(req[r]))
    /\ content' = Collect(dir', fd', content)

\* A request arrives and is validated (solve.go 90-118, executor.go 112-140);
\* a valid one computes its temporary path and defers its removal (121-123).
Receive(r, Requests) ==
    /\ proc = "running"
    /\ pc[r] = "idle"
    /\ \E q \in Requests :
        /\ req' = [req EXCEPT ![r] = q]
        /\ IF Reject(q).status # 0
           THEN /\ resp' = [resp EXCEPT ![r] = Reject(q)]
                /\ pc' = [pc EXCEPT ![r] = "done"]
           ELSE /\ pc' = [pc EXCEPT ![r] = "staged"]
                /\ UNCHANGED resp
    /\ UNCHANGED <<proc, fd, off, nSolve, solveArg, ret, dir, content, execVars, hVars>>

SaveFailed(r) ==
    IF req[r].kind = "solve"
    THEN RespondError(<<"Failed to save file">>, 500)
    ELSE RespondAnalyseError(<<"Failed to save file">>, 500)

\* os.Create(tempFile) (solve.go 125-129, executor.go 147-151): opens the path
\* with O_CREATE|O_TRUNC, so an existing file is emptied and reused; or fails.
Create(r) ==
    /\ ProcessAlive
    /\ pc[r] = "staged"
    /\ \/ LET p == TempFile(req[r])
              inode == IF dir[p] # 0 THEN dir[p] ELSE r
          IN /\ dir' = [dir EXCEPT ![p] = inode]
             /\ content' = [content EXCEPT ![inode] = <<>>]
             /\ fd' = [fd EXCEPT ![r] = inode]
             /\ off' = [off EXCEPT ![r] = 0]
             /\ pc' = [pc EXCEPT ![r] = "copying"]
             /\ UNCHANGED resp
       \/ Return(r, SaveFailed(r))
    /\ UNCHANGED <<proc, req, nSolve, solveArg, ret, execVars, hVars>>

\* io.Copy(out, file) (solve.go 132-135, executor.go 154-157): one block of the
\* upload is written at the descriptor's offset; or the write fails.
CopyChunk(r) ==
    /\ ProcessAlive
    /\ pc[r] = "copying"
    /\ off[r] < Len(req[r].upload)
    /\ \/ /\ content' = [content EXCEPT ![fd[r]] = WriteAt(@, off[r], req[r].upload[off[r] + 1])]
          /\ off' = [off EXCEPT ![r] = @ + 1]
          /\ UNCHANGED <<pc, fd, resp, dir>>
       \/ Return(r, SaveFailed(r))
    /\ UNCHANGED <<proc, req, nSolve, solveArg, ret, execVars, hVars>>

\* the call h.client.Solve(r.Context(), tempFile, opts) of solve.go lines 142-146
CallSolve(r) ==
    /\ nSolve' = [nSolve EXCEPT ![r] = @ + 1]
    /\ solveArg' = [solveArg EXCEPT ![r] = [path |-> TempFile(req[r]),
                                            opts |-> ParseSolveOptions(req[r].form)]]

\* a faulty handler: closes the file and calls the solver before the copy is complete
CloseEarly(r) ==
    /\ ProcessAlive
    /\ pc[r] = "copying"
    /\ \/ /\ fd' = [fd EXCEPT ![r] = 0]
          /\ off' = [off EXCEPT ![r] = 0]
          /\ content' = Collect(dir, fd', content)
          /\ pc' = [pc EXCEPT ![r] = "solving"]
          /\ IF req[r].kind = "solve" THEN CallSolve(r) ELSE UNCHANGED <<nSolve, solveArg>>
          /\ UNCHANGED <<resp, dir>>
       \/ /\ req[r].kind = "solve"
          /\ Return(r, SaveFailed(r))
          /\ UNCHANGED <<nSolve, solveArg>>
    /\ UNCHANGED <<proc, req, ret, execVars, hVars>>

\* out.Close() after the copy (solve.go 136-139: an error answers 500;
\* executor.go 158: the error is dropped), then the call of client.Solve
\* (line 146) or fov.AnalyzeImage (line 162) with the temporary path.
Close(r) ==
    /\ ProcessAlive
    /\ pc[r] = "copying"
    /\ off[r] = Len(req[r].upload)
    /\ \/ /\ fd' = [fd EXCEPT ![r] = 0]
          /\ off' = [off EXCEPT ![r] = 0]
          /\ content' = Collect(dir, fd', content)
          /\ pc' = [pc EXCEPT ![r] = "solving"]
          /\ IF req[r].kind = "solve" THEN CallSolve(r) ELSE UNCHANGED <<nSolve, solveArg>>
          /\ UNCHANGED <<resp, dir>>
       \/ /\ req[r].kind = "solve"
          /\ Return(r, SaveFailed(r))
          /\ UNCHANGED <<nSolve, solveArg>>
    /\ UNCHANGED <<proc, req, ret, execVars, hVars>>

\* a faulty handler: calls client.Solve a second time when it returns an error
SolveReturnRetrying(r, Outcomes) ==
    /\ ProcessAlive
    /\ pc[r] = "solving"
    /\ req[r].kind = "solve"
    /\ \E o \in Outcomes :
        IF ~o.panic /\ ~o.err.nil /\ nSolve[r] < 2
        THEN /\ nSolve' = [nSolve EXCEPT ![r] = @ + 1]
             /\ UNCHANGED <<pc, fd, off, solveArg, ret, resp, dir, content>>
        ELSE /\ ret' = [ret EXCEPT ![r] = o]
             /\ Return(r, IF SolvePanics(o) THEN NoResp ELSE SolveAnswer(o))
             /\ UNCHANGED <<nSolve, solveArg>>
    /\ UNCHANGED <<proc, req, execVars, hVars>>

\* client.Solve returns or panics; the handler builds and writes its response
\* (solve.go 146-178) and its deferred calls run. A panic is recovered by
\* net/http after the deferred calls, and no response is written.
SolveReturn(r, Outcomes) ==
    /\ ProcessAlive
    /\ pc[r] = "solving"
    /\ req[r].kind = "solve"
    /\ \E o \in Outcomes :
        /\ ret' = [ret EXCEPT ![r] = o]
        /\ Return(r, IF SolvePanics(o) THEN NoResp ELSE SolveAnswer(o))
        /\ UNCHANGED <<nSolve, solveArg>>
    /\ UNCHANGED <<proc, req, execVars, hVars>>

\* fov.AnalyzeImage returns or panics (executor.go 162-200)
AnalyseReturn(r) ==
    /\ ProcessAlive
    /\ pc[r] = "solving"
    /\ req[r].kind = "analyse"
    /\ \E o \in AnalyseOutcomes :
        /\ ret' = [ret EXCEPT ![r] = o]
        /\ Return(r, IF AnalysePanics(o) THEN NoResp ELSE AnalyseAnswer(o))
    /\ UNCHANGED <<proc, req, nSolve, solveArg, execVars, hVars>>

----------------------------------------------------------------------------
(* main: the wait for SIGINT/SIGTERM and server.Shutdown (part_003 547-561) *)

\* a signal is delivered to the quit channel
Signal ==
    /\ proc = "running"
    /\ proc' = "shutdown"
    /\ UNCHANGED <<pc, req, fd, off, nSolve, solveArg, ret, resp, dir, content, execVars, hVars>>

\* a faulty shutdown: waits for the requests in flight without a time limit
ShutdownReturnsWhenIdle ==
    /\ proc = "shutdown"
    /\ \A r \in Reqs : ~InFlight(r)
    /\ proc' = "exited"
    /\ UNCHANGED <<pc, req, fd, off, nSolve, solveArg, ret, resp, dir, content, execVars, hVars>>

\* server.Shutdown(ctx) returns, because no request is in flight any more or
\* because the 30-second context expired; main returns and the process ends.
\* Goroutines still serving a request end with the process: their deferred
\* calls do not run.
ShutdownReturns ==
    /\ proc = "shutdown"
    /\ proc' = "exited"
    /\ UNCHANGED <<pc, req, fd, off, nSolve, solveArg, ret, resp, dir, content, execVars, hVars>>

\* server.ListenAndServe returns an error other than http.ErrServerClosed
\* (part_003 542-544): log.Fatalf ends the process at once
ListenFails ==
    /\ proc = "running"
    /\ proc' = "failed"
    /\ UNCHANGED <<pc, req, fd, off, nSolve, solveArg, ret, resp, dir, content, execVars, hVars>>

----------------------------------------------------------------------------
(* HealthHandler.ServeHTTP and VersionHandler.ServeHTTP *)

MaxUptime == 2      \* seconds the clock advances in one behaviour

\* the clock reading when NewHealthHandler runs
BootTime == 5

HealthMethods == {"GET", "HEAD", "POST", "DELETE"}

\* HealthResponse{}, by JSON field name (no field is omitempty)
HealthResponseZero == [status |-> <<>>, uptime_seconds |-> 0, version |-> <<>>]

\* time.Since(t).Seconds(), on the monotonic clock
Since(t) == clock - t

\* a faulty health check: reports the clock reading instead of the uptime
HealthAnswerClock(method) ==
    IF method # "GET" THEN HttpError(<<"Method not allowed">>, 405)
    ELSE JSONResponse(200,
            [status |-> <<"healthy">>, uptime_seconds |-> 0 - clock, version |-> <<"0.1.0">>],
            HealthResponseZero, DOMAIN HealthResponseZero)

\* HealthHandler.ServeHTTP (health.go lines 37-55)
HealthAnswer(method) ==
    IF method # "GET" THEN HttpError(<<"Method not allowed">>, 405)
    ELSE JSONResponse(200,
            [status |-> <<"healthy">>, uptime_seconds |-> Since(startTime),
             version |-> <<"0.1.0">>],
            HealthResponseZero, DOMAIN HealthResponseZero)

Health ==
    /\ \E method \in HealthMethods :
        /\ hreq' = method
        /\ hresp' = HealthAnswer(method)
    /\ UNCHANGED <<clock, startTime, vresp, callLog, srvVars, execVars>>

\* time passes
Tick ==
    /\ clock < BootTime + MaxUptime
    /\ clock' = clock + 1
    /\ UNCHANGED <<startTime, hreq, hresp, vresp, callLog, srvVars, execVars>>

\* VersionResponse{}, by JSON field name
VersionResponseZero == [version |-> <<>>, error |-> <<>>]

\* VersionHandler.ServeHTTP lines 92-103: the response written once Execute
\* has returned
VersionAnswer(output, err) ==
    IF ~err.nil
    THEN JSONResponse(200, [VersionResponseZero EXCEPT !.error = err.msg],
                      VersionResponseZero, {"version"})
    ELSE JSONResponse(200, [VersionResponseZero EXCEPT !.version = output],
                      VersionResponseZero, {"version"})

\* VersionHandler.ServeHTTP (health.go lines 89-104); while Execute has not
\* returned nothing is written
VersionServe ==
    /\ nCalls < MaxCalls
    /\ ExecuteCall(SolveField, <<"--version">>)
    /\ IF nBlocked' = nBlocked
       THEN vresp' = VersionAnswer(execOut', execErr')
       ELSE UNCHANGED vresp
    /\ UNCHANGED <<clock, startTime, hreq, hresp, callLog, srvVars>>

InitHandlers ==
    /\ clock = BootTime
    /\ startTime = clock
    /\ hreq = ""
    /\ hresp = NoResp
    /\ vresp = NoResp
    /\ callLog = <<>>

----------------------------------------------------------------------------
(* Request populations *)

Uploads == {<<1>>, <<2, 3>>}

\* requests that reach staging (two that share an extension with different
\* or equal bytes, one with another extension) and one rejection of each kind
KeepForm(kp) == [EmptyForm EXCEPT !.keep_temp_files = IF kp THEN <<"true">> ELSE <<>>]

Staged(k, f, u, kp) ==
    [kind |-> k, method |-> "POST", formOK |-> TRUE, oversize |-> FALSE, hasImage |-> TRUE,
     filename |-> f, upload |-> u, keep |-> kp, form |-> KeepForm(kp)]

RequestsSmall ==
    {Staged("solve", <<"a", ".jpg">>, u, kp) : u \in Uploads, kp \in BOOLEAN}
    \cup {Staged("solve", <<"b", ".png">>, <<1>>, FALSE)}
    \cup {Staged("analyse", <<"a", ".jpg">>, u, FALSE) : u \in Uploads}
    \cup {[NoReq EXCEPT !.kind = k, !.method = "GET"] : k \in {"solve", "analyse"}}

Filenames ==
    {<<"a", ".jpg">>, <<"A", ".JPG">>, <<"b", ".jpeg">>, <<"c", ".png">>, <<"d", ".fits">>,
     <<"e", ".fit">>, <<"notes", ".txt">>, <<"noext">>, <<"../", "x", ".jpg">>,
     <<"a", ".jpg", ".txt">>, <<>>}

RequestsFull ==
    {[q EXCEPT !.form = KeepForm(q.keep)] :
        q \in [kind : {"solve"}, method : {"POST", "GET", "PUT"}, formOK : BOOLEAN,
               oversize : BOOLEAN, hasImage : BOOLEAN, filename : Filenames,
               upload : Uploads \cup {<<>>}, keep : BOOLEAN, form : {EmptyForm}]}

\* per form field: absent, a value that parses, and a value that does not
\* (scale_units: a unit the documentation does not list)
FormValues ==
    [scale_low |-> {<<>>, <<"320">>, <<"abc">>},
     scale_high |-> {<<>>, <<"460">>, <<"abc">>},
     scale_units |-> {<<>>, <<"degwidth">>, <<"furlongs">>},
     downsample_factor |-> {<<>>, <<"4">>, <<"1e2">>},
     depth_low |-> {<<>>, <<"15">>, <<"abc">>},
     depth_high |-> {<<>>, <<"+30">>, <<"abc">>},
     ra |-> {<<>>, <<"83">>, <<"abc">>},
     dec |-> {<<>>, <<"-5">>, <<"abc">>},
     radius |-> {<<>>, <<"1e2">>, <<"abc">>},
     keep_temp_files |-> {<<>>, <<"true">>, <<"yes">>}]

Forms ==
    [scale_low : FormValues.scale_low, scale_high : FormValues.scale_high,
     scale_units : FormValues.scale_units, downsample_factor : FormValues.downsample_factor,
     depth_low : FormValues.depth_low, depth_high : FormValues.depth_high,
     ra : FormValues.ra, dec : FormValues.dec, radius : FormValues.radius,
     keep_temp_files : FormValues.keep_temp_files]

\* one valid /solve upload with every form
RequestsOpts ==
    {[Staged("solve", <<"a", ".jpg">>, <<1>>, f.keep_temp_files = <<"true">>) EXCEPT !.form = f] :
        f \in Forms}

InitServer ==
    /\ proc = "running"
    /\ pc = [r \in Reqs |-> "idle"]
    /\ req = [r \in Reqs |-> NoReq]
    /\ fd = [r \in Reqs |-> 0]
    /\ off = [r \in Reqs |-> 0]
    /\ nSolve = [r \in Reqs |-> 0]
    /\ solveArg = [r \in Reqs |-> NoArg]
    /\ ret = [r \in Reqs |-> NoRet]
    /\ resp = [r \in Reqs |-> NoResp]
    /\ dir = [p \in StagedPaths |-> 0]
    /\ content = [i \in Reqs |-> <<>>]

Init == InitExec /\ InitServer /\ InitHandlers

\* calls of astrometry.Execute
NextExec == Execute /\ UNCHANGED <<srvVars, hVars>>

SpecExec == Init /\ [][NextExec]_vars

\* the calls of Execute that can be made are made
SpecExecFair == SpecExec /\ WF_vars(NextExec)

\* calls of astrometry.Execute, the last two of them logged
NextLogged == ExecuteLogged /\ UNCHANGED <<srvVars, clock, startTime, hreq, hresp, vresp>>

SpecLogged == Init /\ [][NextLogged]_vars

\* the server serving concurrent requests
Next ==
    \E r \in Reqs :
        \/ Receive(r, RequestsSmall)
        \/ Create(r)
        \/ CopyChunk(r)
        \/ Close(r)
        \/ SolveReturn(r, SolveOutcomesSmall)
        \/ AnalyseReturn(r)

Spec == Init /\ [][Next]_vars

\* the server serving concurrent requests until a signal ends it
NextMain ==
    \/ Next
    \/ Signal
    \/ ShutdownReturns

SpecMain == Init /\ [][NextMain]_vars

\* one /solve request with every input and every outcome of client.Solve
NextSolve ==
    \/ Receive(1, RequestsFull)
    \/ Create(1)
    \/ CopyChunk(1)
    \/ Close(1)
    \/ SolveReturn(1, SolveOutcomesFull)

SpecSolve == Init /\ [][NextSolve]_vars

\* one valid /solve upload with every combination of form fields
NextOpts ==
    \/ Receive(1, RequestsOpts)
    \/ Create(1)
    \/ CopyChunk(1)
    \/ Close(1)
    \/ SolveReturn(1, SolveOutcomesSmall)

SpecOpts == Init /\ [][NextOpts]_vars

\* requests to /version and /health while time passes
NextVersion ==
    \/ VersionServe
    \/ Health
    \/ Tick

SpecVersion == Init /\ [][NextVersion]_vars

\* requests to /health while time passes and a /solve or /analyse request is served
NextHealth ==
    \/ Health
    \/ Tick
    \/ Receive(1, RequestsSmall)
    \/ Create(1)
    \/ CopyChunk(1)
    \/ Close(1)
    \/ SolveReturn(1, SolveOutcomesSmall)
    \/ AnalyseReturn(1)

SpecHealth == Init /\ [][NextHealth]_vars

\* main from the start of serving to its end, with one request; server.Shutdown
\* returns at the latest when its 30-second context expires
NextShutdown ==
    \/ Receive(1, RequestsSmall)
    \/ Create(1)
    \/ CopyChunk(1)
    \/ Close(1)
    \/ SolveReturn(1, SolveOutcomesSmall)
    \/ AnalyseReturn(1)
    \/ Signal
    \/ ShutdownReturns
    \/ ListenFails

SpecShutdown == Init /\ [][NextShutdown]_vars /\ WF_vars(ShutdownReturns)

----------------------------------------------------------------------------
(* Properties *)

FiveNames ==
    {<<"solve-field">>, <<"image2xy">>, <<"fit-wcs">>, <<"wcs-xy2rd">>, <<"wcs-rd2xy">>}

\* the step is a call of Execute with a name outside the allowlist
RejectedCall == nCalls' = nCalls + 1 /\ execName' \notin FiveNames

\* C1 (as stated): a call with a name outside the allowlist returns an empty
\* output and an "invalid binary name" error and spawns no process, and the
\* number of processes spawned equals the number of calls with an allowlisted name.
C1_SpawnedEqualsAllowedCalls ==
    /\ [](nProcs = nAllowed)
    /\ [][RejectedCall =>
            /\ execOut' = <<>>
            /\ ~execErr'.nil /\ IsPrefix(<<"invalid binary name: ">>, execErr'.msg)
            /\ nProcs' = nProcs]_vars

\* C1 (amended): a call with a name outside the allowlist returns an empty
\* output and an "invalid binary name" error naming it, launches nothing and
\* spawns no process; the number of launch attempts equals the number of calls
\* with an allowlisted name, and the number of processes spawned never exceeds
\* it (an allowlisted binary that cannot be started spawns none).
C1_RejectedSpawnsNothing ==
    /\ [](nLaunch = nAllowed /\ nProcs <= nAllowed)
    /\ [][RejectedCall =>
            /\ execOut' = <<>>
            /\ execErr' = Err(<<"invalid binary name: ">> \o execName')
            /\ IsPrefix(<<"invalid binary name: ">>, execErr'.msg)
            /\ nProcs' = nProcs /\ nLaunch' = nLaunch /\ nAllowed' = nAllowed]_vars

\* C1 witness: a rejected call after an allowlisted one whose binary did not start
C1_Witness ==
    /\ nCalls >= 2 /\ execName = <<"rm">> /\ ~execErr.nil
    /\ nAllowed = 1 /\ nLaunch = 1 /\ nProcs = 0

\* C2: Execute launches a command exactly when the name equals one of the five
\* permitted names; a name that contains, starts with, ends with or
\* path-qualifies a permitted name is rejected; the permitted set never changes.
C2_ExactMatchOnly ==
    /\ [](validBinaries = FiveNames)
    /\ [][nCalls' = nCalls + 1 =>
            IF execName' \in FiveNames
            THEN nLaunch' = nLaunch + 1 /\ procArgv' = <<execName'>> \o execArgs'
            ELSE nLaunch' = nLaunch /\ procArgv' = procArgv /\ ~execErr'.nil]_vars

\* C2 witness: a shell-suffixed permitted name was rejected after a permitted
\* name was launched
C2_Witness ==
    /\ execName = <<"solve-field", "; rm -rf /">> /\ ~execErr.nil
    /\ nLaunch = 1 /\ procArgv[1] \in FiveNames

ReachedStaging(r) == pc[r] # "idle" /\ Reject(req[r]).status = 0

\* C3 (as stated): no two in-flight invocations have the same staged input path.
C3_StagedPathsUnique ==
    \A r1, r2 \in Reqs :
        r1 # r2 /\ InFlight(r1) /\ InFlight(r2) => TempFile(req[r1]) # TempFile(req[r2])

\* C4 (as stated): throughout a request's call of client.Solve, the file at the
\* path handed to Solve holds exactly the bytes that request uploaded.
C4_SolveSeesOwnUpload ==
    \A r \in Reqs :
        pc[r] = "solving" /\ req[r].kind = "solve" =>
            /\ dir[TempFile(req[r])] # 0
            /\ content[dir[TempFile(req[r])]] = req[r].upload

\* the request has created its staged file and has not finished using it
Using(r) == pc[r] \in {"copying", "solving"}

\* C5 (as stated): no step removes the staged file of a request that created it
\* and is still using it after the step (only its own return ends its use).
C5_CleanupSparesOthers ==
    [][\A j \in Reqs :
            Using(j) /\ dir[TempFile(req[j])] # 0 /\ Using(j)' =>
                dir'[TempFile(req[j])] # 0]_vars

\* C6: once no request is in flight, the staged file of every /solve request
\* that reached staging with keepTempFiles false and has returned (whatever its
\* exit path) is gone from disk.
C6_NoStagedFileRemains ==
    (\A r \in Reqs : ~InFlight(r)) =>
        \A r \in Reqs :
            pc[r] = "done" /\ req[r].kind = "solve" /\ ReachedStaging(r) /\ ~req[r].keep =>
                dir[TempFile(req[r])] = 0

\* C6 witness: two /solve requests without keep_temp_files on the same path have
\* returned, one answered by the solver and one after a failure to save
C6_Witness ==
    /\ \A r \in Reqs : pc[r] = "done" /\ req[r].kind = "solve" /\ ~req[r].keep
    /\ TempFile(req[1]) = TempFile(req[2])
    /\ ret[1].returned /\ resp[1].status = 200
    /\ resp[2].status = 500

\* C7 (as stated): with keep_temp_files=true the staged input file still exists
\* after the /solve request has completed.
C7_KeptFileSurvives ==
    \A r \in Reqs :
        pc[r] = "done" /\ req[r].kind = "solve" /\ req[r].keep /\ ret[r].returned =>
            dir[TempFile(req[r])] # 0

\* C8 (as stated): an invocation that finds its staging path already existing
\* fails with an error and leaves the existing file as it was.
C8_CollisionIsFatal ==
    [][\A r \in Reqs :
            pc[r] = "staged" /\ pc'[r] # "staged" /\ dir[TempFile(req[r])] # 0 =>
                /\ pc'[r] = "done" /\ resp'[r].status = 500
                /\ dir'[TempFile(req[r])] = dir[TempFile(req[r])]
                /\ content'[dir[TempFile(req[r])]] = content[dir[TempFile(req[r])]]]_vars

\* C9 (as stated): the staged input file of a /solve invocation is removed also
\* when the process ends after a shutdown with that invocation still in flight,
\* and when the handler panics during the solve.
C9_ReleasedOnAbnormalExit ==
    \A r \in Reqs :
        /\ req[r].kind = "solve"
        /\ \/ proc = "exited" /\ Using(r)
           \/ pc[r] = "done" /\ ret[r].returned /\ SolvePanics(ret[r])
        /\ \A j \in Reqs : j # r => ~InFlight(j)
        => dir[TempFile(req[r])] = 0

\* client.Solve returned to request r a result with Solved=false and no error
NoSolution(r) ==
    /\ pc[r] = "done" /\ req[r].kind = "solve" /\ ret[r].returned
    /\ ~ret[r].panic /\ ret[r].err.nil /\ ~ret[r].res.nil /\ ~ret[r].res.Solved

\* C10: when client.Solve returns Solved=false and no error, the response has
\* status 200, solved=false, no error, and the result's solve_time and raw_output.
C10_NoSolutionIsNotAnError ==
    \A r \in Reqs :
        NoSolution(r) =>
            /\ resp[r].status = 200
            /\ resp[r].ctype = "application/json"
            /\ Field(resp[r].body, SolveResponseZero, "solved") = FALSE
            /\ "error" \notin DOMAIN resp[r].body
            /\ Field(resp[r].body, SolveResponseZero, "error") = <<>>
            /\ Field(resp[r].body, SolveResponseZero, "solve_time") = ret[r].res.SolveTime
            /\ Field(resp[r].body, SolveResponseZero, "raw_output") = ret[r].res.RawOutput

\* C10 witness: a "no solution" answer carrying a solve time and solver output
C10_Witness ==
    /\ NoSolution(1)
    /\ ret[1].res.SolveTime = 7 /\ ret[1].res.RawOutput = <<"Did not solve">>
    /\ resp[1].body.solve_time = 7

\* request r, a /solve request, has been answered
SolveResponded(r) == pc[r] = "done" /\ req[r].kind = "solve" /\ resp[r].status # 0

\* the value of JSON field f in the answer to request r
ResponseField(r, f) == Field(resp[r].body, SolveResponseZero, f)

\* C11 (as stated): every /solve response written after client.Solve was
\* called carries the solve_time and raw_output of the result whenever Solve
\* returned a result, also when it returned an error alongside it.
C11_DiagnosticsAlwaysCarried ==
    \A r \in Reqs :
        SolveResponded(r) /\ nSolve[r] > 0 /\ ~ret[r].res.nil =>
            /\ ResponseField(r, "solve_time") = ret[r].res.SolveTime
            /\ ResponseField(r, "raw_output") = ret[r].res.RawOutput

CoordFields ==
    [ra |-> "RA", dec |-> "Dec", pixel_scale |-> "PixelScale", rotation |-> "Rotation",
     field_width |-> "FieldWidth", field_height |-> "FieldHeight", wcs_header |-> "WCSHeader"]

\* C12 (as stated): in every /solve response the seven coordinate fields are
\* populated exactly when solved is true, and then equal the result's values;
\* when solved is false all of them are zero/absent.
C12_PopulatedIffSolved ==
    \A r \in Reqs :
        SolveResponded(r) =>
            \A f \in DOMAIN CoordFields :
                /\ f \in DOMAIN resp[r].body <=> ResponseField(r, "solved")
                /\ ResponseField(r, "solved") =>
                        ResponseField(r, f) = ret[r].res[CoordFields[f]]
                /\ ~ResponseField(r, "solved") => ResponseField(r, f) = SolveResponseZero[f]

\* C12 (amended): in every /solve response a coordinate field is populated only
\* when solved is true; when solved is true each reads as the result's value
\* (and is absent exactly when that value is zero or empty); when solved is
\* false all of them are zero/absent.
C12_PopulatedOnlyIfSolved ==
    \A r \in Reqs :
        SolveResponded(r) =>
            \A f \in DOMAIN CoordFields :
                /\ f \in DOMAIN resp[r].body => ResponseField(r, "solved")
                /\ ResponseField(r, "solved") =>
                        /\ ResponseField(r, f) = ret[r].res[CoordFields[f]]
                        /\ f \in DOMAIN resp[r].body
                                <=> ret[r].res[CoordFields[f]] # SolveResponseZero[f]
                /\ ~ResponseField(r, "solved") =>
                        /\ f \notin DOMAIN resp[r].body
                        /\ ResponseField(r, f) = SolveResponseZero[f]

\* C12 witness: a solved answer carrying ra but no field_width (the result's
\* width was zero)
C12_Witness ==
    /\ SolveResponded(1) /\ resp[1].body.solved
    /\ "ra" \in DOMAIN resp[1].body /\ resp[1].body.ra = 83
    /\ "field_width" \notin DOMAIN resp[1].body

\* C13: in every /solve response solved=true implies an empty error and a
\* non-empty error implies solved=false; solved is true only when client.Solve
\* was called and returned a nil error and a result with Solved=true.
C13_SolvedExcludesError ==
    \A r \in Reqs :
        SolveResponded(r) =>
            /\ ResponseField(r, "solved") =>
                    ResponseField(r, "error") = <<>> /\ "error" \notin DOMAIN resp[r].body
            /\ ResponseField(r, "error") # <<>> => ~ResponseField(r, "solved")
            /\ ResponseField(r, "solved") =>
                    /\ nSolve[r] = 1 /\ ret[r].returned
                    /\ ret[r].err.nil /\ ~ret[r].res.nil /\ ret[r].res.Solved

\* C13 witness: Solve returned an error together with a result saying
\* Solved=true, and the answer says solved=false with the error
C13_Witness ==
    /\ SolveResponded(1) /\ ret[1].returned /\ ~ret[1].err.nil
    /\ ~ret[1].res.nil /\ ret[1].res.Solved
    /\ ~resp[1].body.solved /\ resp[1].body.error = ret[1].err.msg

\* C14: client.Solve is called exactly once for each /solve request that passes
\* validation and staging, whatever it returns (its return causes no further
\* call), and never for a request rejected before or during staging.
C14_SolveCalledOnce ==
    /\ [](\A r \in Reqs :
            req[r].kind = "solve" =>
                /\ nSolve[r] <= 1
                /\ pc[r] = "solving" \/ ret[r].returned => nSolve[r] = 1
                /\ pc[r] = "done" /\ resp[r].status \in {400, 405, 500} => nSolve[r] = 0)
    /\ [][\A r \in Reqs : pc[r] \in {"solving", "done"} => nSolve'[r] = nSolve[r]]_vars

\* C14 witness: Solve returned an error and the request ended having called it once
C14_Witness ==
    /\ pc[1] = "done" /\ req[1].kind = "solve" /\ ret[1].returned /\ ~ret[1].err.nil
    /\ nSolve[1] = 1 /\ resp[1].status = 200

\* the upload's name ends in one of the supported extensions, in any case
HasSupportedExt(name) ==
    name # <<>> /\ name[Len(name)] \in {".jpg", ".JPG", ".jpeg", ".png", ".fits", ".fit"}

\* request r was refused with the given status and a JSON body saying
\* solved=false, without staging a file or calling client.Solve
RefusedWith(r, statusCode) ==
    /\ pc[r] = "done"
    /\ resp[r].status = statusCode /\ resp[r].ctype = "application/json"
    /\ "solved" \in DOMAIN resp[r].body /\ resp[r].body.solved = FALSE
    /\ nSolve[r] = 0 /\ fd[r] = 0
    /\ \A p \in StagedPaths : dir[p] = 0

\* C15: a /solve request whose method is not POST is refused with 405 and
\* 'Method not allowed'; a POST whose form has no image field with 400; a POST
\* whose image has an extension outside .jpg .jpeg .png .fits .fit (compared
\* case-insensitively) with 400 and 'Invalid file type', and only such an
\* extension is refused that way; each refusal has a JSON body with
\* solved=false, stages no file and does not call client.Solve.
C15_RejectedBeforeCore ==
    \A r \in Reqs :
        req[r].kind = "solve" /\ pc[r] # "idle" =>
            LET q == req[r]
                parsed == q.method = "POST" /\ q.formOK /\ ~q.oversize
            IN /\ q.method # "POST" =>
                    RefusedWith(r, 405) /\ resp[r].body.error = <<"Method not allowed">>
               /\ parsed /\ ~q.hasImage => RefusedWith(r, 400)
               /\ parsed /\ q.hasImage /\ ~HasSupportedExt(q.filename) =>
                    RefusedWith(r, 400) /\ IsPrefix(<<"Invalid file type">>, resp[r].body.error)
               /\ parsed /\ q.hasImage /\ HasSupportedExt(q.filename) =>
                    resp[r].status \notin {400, 405}

\* C15 witness: an upload named a.jpg.txt was refused for its file type
C15_Witness ==
    /\ req[1].method = "POST" /\ req[1].hasImage
    /\ req[1].filename = <<"a", ".jpg", ".txt">>
    /\ RefusedWith(1, 400) /\ IsPrefix(<<"Invalid file type">>, resp[1].body.error)

\* C18 (as stated): a POST /solve whose body exceeds the maximum upload size is
\* answered with 413, and nothing is staged or solved.
C18_OversizeAnswered413 ==
    \A r \in Reqs :
        req[r].kind = "solve" /\ pc[r] # "idle" /\ req[r].method = "POST" /\ req[r].oversize =>
            /\ pc[r] = "done" /\ resp[r].status = 413
            /\ nSolve[r] = 0 /\ \A p \in StagedPaths : dir[p] = 0

\* C19: when client.Solve returns a non-nil error, with or without a result,
\* the handler does not panic and answers 200 with solved=false and the
\* error's message.
C19_SolveErrorAnswered200 ==
    \A r \in Reqs :
        /\ pc[r] = "done" /\ req[r].kind = "solve"
        /\ ret[r].returned /\ ~ret[r].panic /\ ~ret[r].err.nil
        => /\ resp[r].status = 200 /\ resp[r].ctype = "application/json"
           /\ "solved" \in DOMAIN resp[r].body /\ resp[r].body.solved = FALSE
           /\ ResponseField(r, "error") = ret[r].err.msg

\* C19 witness: Solve returned an error and a nil result, and the request was
\* answered 200 with the error
C19_Witness ==
    /\ pc[1] = "done" /\ ret[1].returned /\ ~ret[1].err.nil /\ ret[1].res.nil
    /\ resp[1].status = 200 /\ resp[1].body.error = <<"solve timed out">>

\* the option each form field sets
OptionOf ==
    [scale_low |-> "ScaleLow", scale_high |-> "ScaleHigh", scale_units |-> "ScaleUnits",
     downsample_factor |-> "DownsampleFactor", depth_low |-> "DepthLow",
     depth_high |-> "DepthHigh", ra |-> "RA", dec |-> "Dec", radius |-> "Radius",
     keep_temp_files |-> "KeepTempFiles"]

\* per form field, the values that are valid for it, with what each denotes
ValidValues ==
    [scale_low |-> (<<"320">> :> 320),
     scale_high |-> (<<"460">> :> 460),
     scale_units |-> (<<"degwidth">> :> <<"degwidth">>),
     downsample_factor |-> (<<"4">> :> 4),
     depth_low |-> (<<"15">> :> 15),
     depth_high |-> (<<"+30">> :> 30),
     ra |-> (<<"83">> :> 83),
     dec |-> (<<"-5">> :> -5),
     radius |-> (<<"1e2">> :> 100),
     keep_temp_files |-> (<<"true">> :> TRUE)]

\* C16: in the options handed to client.Solve, each of the ten options carries
\* the value of its own form field when the field is present with a valid
\* value, and the value of DefaultSolveOptions when the field is absent; and
\* changing any other single form field leaves it as it is.
C16_OptionsFromOwnField ==
    \A r \in Reqs :
        req[r].kind = "solve" /\ pc[r] = "solving" =>
            \A f \in OptionFields :
                LET v == req[r].form[f]
                    o == solveArg[r].opts[OptionOf[f]]
                IN /\ nSolve[r] = 1
                   /\ v \in DOMAIN ValidValues[f] => o = ValidValues[f][v]
                   /\ v = <<>> => o = DefaultSolveOptions[OptionOf[f]]
                   /\ \A g \in OptionFields \ {f} : \A w \in FormValues[g] \ {req[r].form[g]} :
                        ParseSolveOptions([req[r].form EXCEPT ![g] = w])[OptionOf[f]] = o

\* C16 witness: Solve was called with ra and downsample_factor given, dec and
\* depth_low absent, and scale_low unparseable
C16_Witness ==
    /\ pc[1] = "solving" /\ nSolve[1] = 1
    /\ req[1].form.ra = <<"83">> /\ req[1].form.downsample_factor = <<"4">>
    /\ req[1].form.dec = <<>> /\ req[1].form.depth_low = <<>>
    /\ req[1].form.scale_low = <<"abc">>
    /\ solveArg[1].opts.RA = 83 /\ solveArg[1].opts.DownsampleFactor = 4
    /\ solveArg[1].opts.Dec = 0 /\ solveArg[1].opts.DepthLow = 10

\* C17 (as stated): a /solve request carrying an invalid value for one of the
\* option fields is refused with 400.
C17_InvalidParameterRefused ==
    \A r \in Reqs :
        /\ req[r].kind = "solve" /\ pc[r] # "idle"
        /\ \E f \in OptionFields :
                req[r].form[f] # <<>> /\ req[r].form[f] \notin DOMAIN ValidValues[f]
        => RefusedWith(r, 400)

\* C20 (as stated): a launched process runs under a deadline, so that a call of
\* Execute waiting for a process that never exits still eventually returns.
C20_BlockedCallReturns == (nBlocked > 0) ~> (nBlocked = 0)

\* the step is a call of Execute with an allowlisted name
AllowedCall == nCalls' = nCalls + 1 /\ execName' \in FiveNames

\* t is s without its leading and trailing whitespace
IsTrimOf(t, s) ==
    /\ t # <<>> => t[1] \notin Whitespace /\ t[Len(t)] \notin Whitespace
    /\ \E a \in 0..Len(s) :
        /\ a + Len(t) <= Len(s)
        /\ SubSeq(s, a + 1, a + Len(t)) = t
        /\ \A k \in (1..a) \cup ((a + Len(t) + 1)..Len(s)) : s[k] \in Whitespace

\* C21 (as stated): a call of Execute with an allowlisted name spawns exactly
\* one process; it returns the combined output (trimmed) whatever the exit
\* status, with the error when the process failed; when the binary cannot be
\* started it returns an error and an empty output.
C21_OneProcessPerAllowedCall ==
    [][AllowedCall =>
            /\ nProcs' = nProcs + 1
            /\ nBlocked' = nBlocked =>
                    /\ IsTrimOf(execOut', procOut')
                    /\ nProcs' = nProcs => ~execErr'.nil /\ execOut' = <<>>]_vars

\* C21 (amended): a call of Execute with an allowlisted name makes exactly one
\* launch attempt, which spawns one process, or none when the binary cannot
\* be started; when the call returns, it returns the combined output without
\* its leading and trailing whitespace whatever the exit status, together with
\* the error when the process failed, and an error and an empty output when
\* no process was started.
C21_OneLaunchPerAllowedCall ==
    [][AllowedCall =>
            /\ nLaunch' = nLaunch + 1
            /\ nProcs' \in {nProcs, nProcs + 1}
            /\ nBlocked' \in {nBlocked, nBlocked + 1}
            /\ nBlocked' = nBlocked + 1 => nProcs' = nProcs + 1
            /\ nBlocked' = nBlocked =>
                    /\ IsTrimOf(execOut', procOut')
                    /\ nProcs' = nProcs => ~execErr'.nil /\ execOut' = <<>>]_vars

\* C21 witness: a process exited with a failure after writing output, and
\* Execute returned the error and the trimmed output
C21_Witness ==
    /\ execName \in FiveNames /\ nProcs = 1 /\ nBlocked = 0
    /\ execErr = Err(<<"exit status 1">>)
    /\ procOut = <<" ", "0.98", "\n">> /\ execOut = <<"0.98">>

\* C22 (as stated): every response of VersionHandler.ServeHTTP has a non-empty
\* version or a non-empty error.
C22_VersionOrErrorPopulated ==
    vresp.status # 0 =>
        \/ Field(vresp.body, VersionResponseZero, "version") # <<>>
        \/ Field(vresp.body, VersionResponseZero, "error") # <<>>

\* C23 (as stated): a request to /analyse with a method other than POST is
\* answered with status 405 and a JSON body with success=false and an error
\* containing 'Method not allowed'.
C23_AnalyseMethodRefusedAsJSON ==
    \A r \in Reqs :
        req[r].kind = "analyse" /\ req[r].method # "POST" /\ pc[r] # "idle" =>
            /\ pc[r] = "done" /\ resp[r].status = 405
            /\ resp[r].ctype = "application/json"
            /\ "success" \in DOMAIN resp[r].body /\ resp[r].body.success = FALSE
            /\ "error" \in DOMAIN resp[r].body
            /\ Contains(resp[r].body.error, <<"Method not allowed">>)

C25_HealthDependsOnMethodOnly ==
    /\ [](hreq # "" =>
            IF hreq = "GET"
            THEN /\ hresp.status = 200 /\ hresp.ctype = "application/json"
                 /\ DOMAIN hresp.body = {"status", "uptime_seconds", "version"}
                 /\ hresp.body.status = <<"healthy">>
                 /\ hresp.body.uptime_seconds >= 0
                 /\ hresp.body.uptime_seconds <= clock - BootTime
                 /\ hresp.body.version # <<>>
            ELSE hresp.status = 405)
    /\ [][hresp' # hresp \/ hreq' # hreq =>
            /\ hreq' = "GET" => hresp'.body.uptime_seconds = clock' - startTime'
            /\ srvVars' = srvVars /\ startTime' = startTime]_vars
    /\ [][srvVars' # srvVars => hresp' = hresp /\ startTime' = startTime]_vars

\* C25 witness: two seconds after the start, while a /solve request is inside
\* client.Solve, a GET /health was answered with uptime 2
C25_Witness ==
    /\ hreq = "GET" /\ hresp.status = 200 /\ hresp.body.uptime_seconds = 2
    /\ pc[1] = "solving" /\ req[1].kind = "solve"

\* C26: before a signal arrives main does not end unless ListenAndServe fails;
\* once the signal has been received and server.Shutdown called, no new
\* request is accepted, and main eventually returns, whether or not the
\* requests in flight finish.
C26_GracefulShutdown ==
    /\ [][proc = "running" => proc' \in {"running", "shutdown", "failed"}]_vars
    /\ [][proc = "shutdown" => proc' \in {"shutdown", "exited"}]_vars
    /\ [][proc # "running" => \A r \in Reqs : pc[r] = "idle" => pc'[r] = "idle"]_vars
    /\ (proc = "shutdown") ~> (proc = "exited")

\* C26 witness: main returned after a signal while a request was still inside
\* client.Solve
C26_Witness == proc = "exited" /\ pc[1] = "solving" /\ req[1].kind = "solve"

\* the form gives a valid value for field f
Given(form, f) == form[f] \in DOMAIN ValidValues[f]

\* what the option of field f is to be: the value given, or the default
Supplied(form, f) ==
    IF form[f] = <<>> THEN DefaultSolveOptions[OptionOf[f]] ELSE ValidValues[f][form[f]]

\* every field is absent or valid, and the position hint is incomplete: a
\* radius without ra or without dec, or only one of ra and dec
IncompleteHint(form) ==
    /\ \A f \in OptionFields : form[f] = <<>> \/ Given(form, f)
    /\ \/ Given(form, "radius") /\ (form.ra = <<>> \/ form.dec = <<>>)
       \/ Given(form, "ra") /\ form.dec = <<>>
       \/ form.ra = <<>> /\ Given(form, "dec")

\* C27: a /solve request with an incomplete position hint is not refused by
\* the handler; client.Solve is called once, with exactly the supplied hint
\* fields set and the absent ones at their defaults, and its result is
\* answered without an error.
C27_IncompleteHintPassedThrough ==
    \A r \in Reqs :
        req[r].kind = "solve" /\ pc[r] # "idle" /\ IncompleteHint(req[r].form) =>
            /\ ~(pc[r] = "done" /\ resp[r].status \in {400, 405})
            /\ pc[r] = "solving" \/ ret[r].returned =>
                    /\ nSolve[r] = 1
                    /\ \A f \in {"ra", "dec", "radius"} :
                            solveArg[r].opts[OptionOf[f]] = Supplied(req[r].form, f)
            /\ pc[r] = "done" /\ ret[r].returned /\ ~ret[r].panic /\ ret[r].err.nil =>
                    resp[r].status = 200 /\ "error" \notin DOMAIN resp[r].body

\* C27 witness: a request with radius and ra but no dec was solved
C27_Witness ==
    /\ pc[1] = "done" /\ req[1].form.radius = <<"1e2">> /\ req[1].form.ra = <<"83">>
    /\ req[1].form.dec = <<>> /\ IncompleteHint(req[1].form)
    /\ nSolve[1] = 1 /\ solveArg[1].opts.Radius = 100 /\ solveArg[1].opts.RA = 83
    /\ solveArg[1].opts.Dec = 0
    /\ resp[1].status = 200 /\ resp[1].body.solved

\* the five paths /shared-data/astro_<pid><ext>
SolvePaths ==
    {<<"/shared-data", "/", "astro_", "<pid>", e>> :
        e \in {".jpg", ".jpeg", ".png", ".fits", ".fit"}}

\* C28: the path a /solve request stages its upload at and hands to
\* client.Solve is /shared-data/astro_<pid><ext> with ext one of the five
\* lowercase extensions, ext being the lowered extension of the upload's name;
\* the file Solve is called on exists at that path, and no file is created
\* anywhere else.
C28_WritesOnlyInStagingDir ==
    /\ \A p \in StagedPaths : dir[p] # 0 => p \in SolvePaths
    /\ \A r \in Reqs :
        req[r].kind = "solve" =>
            /\ InFlight(r) =>
                    /\ TempFile(req[r]) \in SolvePaths
                    /\ HasSupportedExt(req[r].filename)
                    /\ TempFile(req[r])[5] =
                            LowerFrag(req[r].filename[Len(req[r].filename)])
            /\ nSolve[r] > 0 =>
                    /\ solveArg[r].path \in SolvePaths
                    /\ solveArg[r].path = TempFile(req[r])
            /\ pc[r] = "solving" => dir[solveArg[r].path] # 0

\* C28 witness: an upload named ../x.jpg was staged at, and solved from,
\* /shared-data/astro_<pid>.jpg
C28_Witness ==
    /\ req[1].filename = <<"../", "x", ".jpg">> /\ pc[1] = "solving"
    /\ solveArg[1].path = <<"/shared-data", "/", "astro_", "<pid>", ".jpg">>
    /\ dir[solveArg[1].path] # 0

\* the position of a handler in its sequence of steps
Rank(l) ==
    CASE l = "idle" -> 0 [] l = "staged" -> 1 [] l = "copying" -> 2 [] l = "solving" -> 3
      [] l = "done" -> 4

\* C29: one execution of SolveHandler.ServeHTTP goes through validation, file
\* creation, copy, close, client.Solve and response in that order, each at
\* most once, leaving the sequence only by returning; client.Solve is called
\* only when the staged file has been completely written and closed; a
\* response is written only on return; and while Solve runs the staged file is
\* removed only by the step in which Solve returns.
C29_StepsInOrder ==
    /\ [][\A r \in Reqs :
            /\ Rank(pc'[r]) >= Rank(pc[r])
            /\ pc'[r] # pc[r] => pc'[r] = "done" \/ Rank(pc'[r]) = Rank(pc[r]) + 1
            /\ fd'[r] # 0 /\ fd[r] = 0 => pc[r] = "staged" /\ pc'[r] = "copying"
            /\ nSolve'[r] # nSolve[r] =>
                    /\ pc[r] = "copying" /\ pc'[r] = "solving"
                    /\ off[r] = Len(req[r].upload) /\ fd[r] # 0 /\ fd'[r] = 0
                    /\ dir'[TempFile(req[r])] # 0
                    /\ content'[dir'[TempFile(req[r])]] = req[r].upload
            /\ pc[r] = "solving" /\ dir[TempFile(req[r])] # 0 /\ dir'[TempFile(req[r])] = 0 =>
                    ret'[r].returned /\ pc'[r] = "done"]_vars
    /\ [](\A r \in Reqs :
            /\ resp[r].status # 0 => pc[r] = "done"
            /\ ret[r].returned => pc[r] = "done" /\ nSolve[r] = 1
            /\ pc[r] = "solving" => nSolve[r] = 1 /\ ~ret[r].returned)

\* C29 witness: a two-block upload went through every step and was answered,
\* and its staged file is gone
C29_Witness ==
    /\ pc[1] = "done" /\ req[1].upload = <<2, 3>> /\ ret[1].returned
    /\ nSolve[1] = 1 /\ resp[1].status = 200 /\ dir[TempFile(req[1])] = 0

\* C30: two calls of Execute with the same name are both accepted or both
\* rejected whatever their arguments, a call is accepted exactly when its name
\* is one of the five, and an accepted call hands the process the name
\* followed by the arguments as given, in order, with nothing added.
C30_DecisionByNameOnly ==
    /\ \A i, j \in DOMAIN callLog :
        callLog[i].name = callLog[j].name => callLog[i].launched = callLog[j].launched
    /\ \A i \in DOMAIN callLog :
        /\ callLog[i].launched <=> callLog[i].name \in FiveNames
        /\ callLog[i].launched =>
                /\ Len(callLog[i].argv) = 1 + Len(callLog[i].args)
                /\ callLog[i].argv[1] = callLog[i].name
                /\ \A k \in DOMAIN callLog[i].args : callLog[i].argv[k + 1] = callLog[i].args[k]

\* C30 witness: solve-field was called with --version and then with an
\* argument holding shell metacharacters, and both calls were launched
C30_Witness ==
    /\ Len(callLog) = 2
    /\ callLog[1].name = SolveField /\ callLog[2].name = SolveField
    /\ callLog[1].args = <<"--version">> /\ callLog[2].args = <<"--help", "; rm -rf /">>
    /\ callLog[1].launched /\ callLog[2].launched
    /\ callLog[2].argv = <<SolveField, "--help", "; rm -rf /">>

====
